---- MODULE Spec2Model ----
(***************************************************************************)
(* Two-way reconciliation of a database export against a CDISC export      *)
(* (compare_records.py).  A cell of a table is a Python str, modelled as   *)
(* the sequence of its characters; None is a value that is no str.         *)
(* Spec is one run of main(); SpecNorm applies the helpers norm and        *)
(* norm_id to arbitrary bounded inputs.                                    *)
(***************************************************************************)
EXTENDS Integers, Sequences, FiniteSets, TLC

VARIABLES pc, dbColumns, cdiscColumns, db, cdisc, db_counts, db_key_set,
          missing_map, cdisc_ok, cdisc_counts, cdisc_key_set, i,
          db_to_cdisc_rows, db_to_cdisc_df, cdisc_to_db_rows, cdisc_to_db_df,
          files, summary, log, exitMsg,
          npc, nx, n1, n2, nid

mainVars == <<pc, dbColumns, cdiscColumns, db, cdisc, db_counts, db_key_set,
              missing_map, cdisc_ok, cdisc_counts, cdisc_key_set, i,
              db_to_cdisc_rows, db_to_cdisc_df, cdisc_to_db_rows, cdisc_to_db_df,
              files, summary, log, exitMsg>>
normVars == <<npc, nx, n1, n2, nid>>
vars == <<mainVars, normVars>>

\* ---------------------------------------------------------------- bounds
MaxDbRows == 2
MaxCdiscRows == 2
MaxLen == 4

\* ---------------------------------------------------------------- strings
\* Whitespace as str.strip() and the regex class \s see it.
WS == {" ", "\t"}

None == <<"None">>

EMPTY == <<>>

\* Every character of the model, in code-point order (Python compares str by
\* code point; groupby sorts its keys).
Alphabet == <<"\t", " ", "(", ")", ",", "-", ".", "0", "1", "2", "3", "4", "8", "A", "B", "C",
        "D", "E", "F", "G", "H", "I", "J", "K", "L", "M", "N", "O", "P", "Q", "R", "S", "T", "U",
        "V", "W", "_", "a", "b", "c", "d", "e", "f", "g", "h", "i", "k", "l", "m", "n", "o", "p",
        "r", "s", "t", "u", "v", "w", "x", "y">>

ord(c) == CHOOSE n \in 1..Len(Alphabet) : Alphabet[n] = c

RECURSIVE lstrip(_)
lstrip(s) == IF s # <<>> /\ Head(s) \in WS THEN lstrip(Tail(s)) ELSE s

RECURSIVE rstrip(_)
rstrip(s) == IF s # <<>> /\ s[Len(s)] \in WS THEN rstrip(SubSeq(s, 1, Len(s) - 1)) ELSE s

strip(s) == rstrip(lstrip(s))

\* re.sub(r"\s+", " ", s): every maximal run of whitespace becomes one space.
RECURSIVE collapse(_)
collapse(s) ==
    IF s = <<>> THEN <<>>
    ELSE IF Head(s) \in WS THEN <<" ">> \o collapse(lstrip(s))
    ELSE <<Head(s)>> \o collapse(Tail(s))

norm_nostrip(x) == IF x = None THEN <<>> ELSE collapse(x)

norm(x) == IF x = None THEN <<>> ELSE collapse(strip(x))

endswith(s, suffix) ==
    /\ Len(s) >= Len(suffix)
    /\ SubSeq(s, Len(s) - Len(suffix) + 1, Len(s)) = suffix

RECURSIVE strip_all_dot0(_)
strip_all_dot0(s) ==
    IF endswith(s, <<".", "0">>) THEN strip_all_dot0(SubSeq(s, 1, Len(s) - 2)) ELSE s

norm_id_recursive(x) == strip_all_dot0(norm(x))

norm_id(x) ==
    LET s == norm(x)
    IN  IF endswith(s, <<".", "0">>) THEN SubSeq(s, 1, Len(s) - 2) ELSE s

BSeq(S, n) == UNION {[1..k -> S] : k \in 0..n}

normIdle == npc = "idle" /\ nx = <<>> /\ n1 = <<>> /\ n2 = <<>> /\ nid = <<>>

\* ---------------------------------------------------------------- constants
DB_FILE == "CVN101_Data_07JAN2026.csv"
CDISC_FILE == "CVN-101_AK.csv"
OUT_DB_TO_CDISC == "db_to_cdisc_recon.csv"
OUT_CDISC_TO_DB == "cdisc_to_db_recon.csv"

CDISC_QSCAT_TO_FULL ==
    (<<"A", "I", "M", "S", "0", "1">> :> <<"A", "l", "b", "e", "r", "t", "a", " ", "I", "n", "f",
        "a", "n", "t", " ", "M", "o", "t", "o", "r", " ", "S", "c", "a", "l", "e", " ", "(", "A",
        "I", "M", "S", ")">>) @@
    (<<"D", "E", "V", "M", "0", "1">> :> <<"C", "D", "C", " ", "D", "e", "v", "e", "l", "o", "p",
        "m", "e", "n", "t", "a", "l", " ", "M", "i", "l", "e", "s", "t", "o", "n", "e", "s", " ",
        "C", "h", "e", "c", "k", "l", "i", "s", "t">>) @@
    (<<"P", "R", "E", "1">> :> <<"P", "r", "e", "-", "E", "x", "a", "m", "i", "n", "a", "t", "i",
        "o", "n", " ", "Q", "u", "e", "s", "t", "i", "o", "n", "n", "a", "i", "r", "e">>) @@
    (<<"H", "E", "A", "D", "0", "1">> :> <<"M", "e", "a", "s", "u", "r", "e", "m", "e", "n", "t",
        " ", "o", "f", " ", "H", "e", "a", "d", " ", "C", "i", "r", "c", "u", "m", "f", "e", "r",
        "e", "n", "c", "e">>) @@
    (<<"G", "M", "F", "M", "8", "8">> :> <<"G", "r", "o", "s", "s", " ", "M", "o", "t", "o", "r",
        " ", "F", "u", "n", "c", "t", "i", "o", "n", " ", "M", "e", "a", "s", "u", "r", "e", " ",
        "8", "8", "-", "i", "t", "e", "m", "s", " ", "(", "G", "M", "F", "M", "-", "8", "8",
        ")">>) @@
    (<<"H", "I", "N", "E", "0", "2">> :> <<"H", "a", "m", "m", "e", "r", "s", "m", "i", "t", "h",
        " ", "I", "n", "f", "a", "n", "t", " ", "N", "e", "u", "r", "o", "l", "o", "g", "i", "c",
        "a", "l", " ", "E", "x", "a", "m", "i", "n", "a", "t", "i", "o", "n", ",", " ", "S", "e",
        "c", "t", "i", "o", "n", " ", "2", " ", "(", "H", "I", "N", "E", "-", "2", ")">>) @@
    (<<"R", "S", "S", "0", "1">> :> <<"R", "e", "s", "p", "o", "n", "s", "e", " ", "t", "o", " ",
        "S", "e", "n", "s", "o", "r", "y", " ", "S", "t", "i", "m", "u", "l", "i">>) @@
    (<<"I", "M", "P", "0", "1">> :> <<"I", "n", "f", "a", "n", "t", " ", "M", "o", "t", "o", "r",
        " ", "P", "r", "o", "f", "i", "l", "e", " ", "(", "I", "M", "P", ")">>) @@
    (<<"P", "O", "S", "T", "1">> :> <<"P", "o", "s", "t", " ", "E", "x", "a", "m", "i", "n", "a",
        "t", "i", "o", "n", " ", "Q", "u", "e", "s", "t", "i", "o", "n", "n", "a", "i", "r",
        "e">>) @@
    (<<"B", "a", "y", "l", "e", "y", "-", "4">> :> <<"B", "a", "y", "l", "e", "y", "-", "4", " ",
        "C", "o", "g", "n", "i", "t", "i", "v", "e", ",", " ", "L", "a", "n", "g", "u", "a", "g",
        "e", " ", "a", "n", "d", " ", "M", "o", "t", "o", "r">>) @@
    (<<"T", "I", "M", "P", "1">> :> <<"T", "e", "s", "t", " ", "o", "f", " ", "I", "n", "f", "a",
        "n", "t", " ", "M", "o", "t", "o", "r", " ", "P", "e", "r", "f", "o", "r", "m", "a", "n",
        "c", "e", " ", "S", "c", "r", "e", "e", "n", "i", "n", "g", " ", "I", "t", "e", "m", "s",
        " ", "(", "T", "I", "M", "P", "S", "I", ")">>) @@
    (<<"V", "i", "n", "e", "l", "a", "n", "d", "-", "3", " ", "C", "o", "m", "p", "r", "e", "h",
        "e", "n", "s", "i", "v", "e">> :> <<"V", "i", "n", "e", "l", "a", "n", "d", "-", "3",
        " ", "C", "o", "m", "p", "r", "e", "h", "e", "n", "s", "i", "v", "e", " ", "I", "n", "t",
        "e", "r", "v", "i", "e", "w", " ", "F", "o", "r", "m">>)

\* CDISC_QSCAT_TO_FULL.get(short, "")
get(short) == IF short \in DOMAIN CDISC_QSCAT_TO_FULL THEN CDISC_QSCAT_TO_FULL[short] ELSE EMPTY

REQUIRED == <<"USUBJID", "VISIT", "QSCAT">>

HELPER_COLUMNS == {"USUBJID_N", "VISIT_N", "QSCAT_FULL_N"}

\* ---------------------------------------------------------------- helpers
Restrict(f, S) == [c \in S |-> f[c]]

key_of(r) == <<r.USUBJID_N, r.VISIT_N, r.QSCAT_FULL_N>>

keys_of(rows) == [k \in 1..Len(rows) |-> key_of(rows[k])]

RECURSIVE groupby_size_once(_)
groupby_size_once(ks) ==
    IF ks = <<>> THEN <<>>
    ELSE LET rest == groupby_size_once(SubSeq(ks, 1, Len(ks) - 1))
             k == ks[Len(ks)]
         IN  IF k \in DOMAIN rest THEN rest ELSE rest @@ (k :> 1)

\* groupby([...]).size().to_dict() over the key of every row: one entry per
\* distinct key, counting the rows that carry it.
RECURSIVE groupby_size(_)
groupby_size(ks) ==
    IF ks = <<>> THEN <<>>
    ELSE LET rest == groupby_size(SubSeq(ks, 1, Len(ks) - 1))
             k == ks[Len(ks)]
         IN  IF k \in DOMAIN rest THEN [rest EXCEPT ![k] = @ + 1] ELSE rest @@ (k :> 1)

\* Python's order on str: by code point, a proper prefix first.
RECURSIVE str_lt(_, _)
str_lt(a, b) ==
    IF b = <<>> THEN FALSE
    ELSE IF a = <<>> THEN TRUE
    ELSE IF Head(a) = Head(b) THEN str_lt(Tail(a), Tail(b))
    ELSE ord(Head(a)) < ord(Head(b))

key_lt(a, b) ==
    IF a[1] # b[1] THEN str_lt(a[1], b[1])
    ELSE IF a[2] # b[2] THEN str_lt(a[2], b[2])
    ELSE str_lt(a[3], b[3])

\* The keys of a groupby result come out sorted; the dict keeps that order.
RECURSIVE sorted_keys(_)
sorted_keys(S) ==
    IF S = {} THEN <<>>
    ELSE LET m == CHOOSE k \in S : \A o \in S \ {k} : key_lt(k, o)
         IN  <<m>> \o sorted_keys(S \ {m})

RECURSIVE sorted(_)
sorted(S) ==
    IF S = {} THEN <<>>
    ELSE LET m == CHOOSE k \in S : \A o \in S \ {k} : str_lt(k, o)
         IN  <<m>> \o sorted(S \ {m})

RECURSIVE repeat(_, _)
repeat(k, n) == IF n = 0 THEN <<>> ELSE <<k>> \o repeat(k, n - 1)

RECURSIVE expand(_, _)
expand(ks, counts) ==
    IF ks = <<>> THEN <<>> ELSE repeat(Head(ks), counts[Head(ks)]) \o expand(Tail(ks), counts)

items_per_row(counts) == expand(sorted_keys(DOMAIN counts), counts)

items(counts) == sorted_keys(DOMAIN counts)

\* cdisc[cdisc["QSCAT_FULL_N"] != ""]
mappable(rows) == SelectSeq(rows, LAMBDA r : r.QSCAT_FULL_N # EMPTY)

\* pd.DataFrame(rows): the columns are those of the rows, none when there is no row.
DataFrame(rows) ==
    [columns |-> UNION {DOMAIN rows[k] : k \in 1..Len(rows)}, rows |-> rows]

drop(df, cols) ==
    [columns |-> df.columns \ cols,
     rows |-> [k \in 1..Len(df.rows) |-> Restrict(df.rows[k], DOMAIN df.rows[k] \ cols)]]

count_status(df, status) == Cardinality({k \in 1..Len(df.rows) : df.rows[k].RECON_STATUS = status})

\* ---------------------------------------------------------------- inputs
DbRecords ==
    { [USUBJID |-> <<"S", "U", "B", "J", "-", "0", "0", "1">>, VISIT |-> <<"V", "1">>,
        QSCAT |-> <<"P", "r", "e", "-", "E", "x", "a", "m", "i", "n", "a", "t", "i", "o", "n",
        " ", "Q", "u", "e", "s", "t", "i", "o", "n", "n", "a", "i", "r", "e">>],
      [USUBJID |-> <<"S", "U", "B", "J", "-", "0", "0", "1", ".", "0">>, VISIT |-> <<" ", "V",
        "1">>, QSCAT |-> <<"P", "r", "e", "-", "E", "x", "a", "m", "i", "n", "a", "t", "i", "o",
        "n", " ", " ", "Q", "u", "e", "s", "t", "i", "o", "n", "n", "a", "i", "r", "e">>],
      [USUBJID |-> <<"S", "U", "B", "J", "-", "0", "0", "1">>, VISIT |-> <<"V", "1">>,
        QSCAT |-> EMPTY] }

CdiscRecords ==
    { [USUBJID |-> <<"S", "U", "B", "J", "-", "0", "0", "1", ".", "0">>, VISIT |-> <<"V", "1">>,
        QSCAT |-> <<"P", "R", "E", "1">>],
      [USUBJID |-> <<"S", "U", "B", "J", "-", "0", "0", "2">>, VISIT |-> <<"V", "1">>,
        QSCAT |-> <<"U", "N", "K", "N", "O", "W", "N", "_", "C", "O", "D", "E">>],
      [USUBJID |-> <<"S", "U", "B", "J", "-", "0", "0", "1">>, VISIT |-> <<"V", "2", "\t">>,
        QSCAT |-> <<" ", "R", "S", "S", "0", "1">>],
      [USUBJID |-> <<"S", "U", "B", "J", "-", "0", "0", "1">>, VISIT |-> <<"V", "1">>,
        QSCAT |-> EMPTY] }

Required == {REQUIRED[n] : n \in 1..Len(REQUIRED)}

ColumnChoices == {Required} \cup {Required \ {c} : c \in Required}

NoFrame == [columns |-> {}, rows |-> <<>>]

Init ==
    /\ normIdle
    /\ pc = "validate"
    /\ dbColumns \in ColumnChoices
    /\ cdiscColumns \in ColumnChoices
    /\ db \in BSeq({Restrict(r, dbColumns) : r \in DbRecords}, MaxDbRows)
    /\ cdisc \in BSeq({Restrict(r, cdiscColumns) : r \in CdiscRecords}, MaxCdiscRows)
    /\ db_counts = <<>> /\ db_key_set = {}
    /\ missing_map = {} /\ cdisc_ok = <<>>
    /\ cdisc_counts = <<>> /\ cdisc_key_set = {}
    /\ i = 0
    /\ db_to_cdisc_rows = <<>> /\ db_to_cdisc_df = NoFrame
    /\ cdisc_to_db_rows = <<>> /\ cdisc_to_db_df = NoFrame
    /\ files = <<>> /\ summary = <<>> /\ log = <<>> /\ exitMsg = <<>>

\* ---------------------------------------------------------------- main()
missing_column_db_only ==
    LET bad == {n \in 1..Len(REQUIRED) : REQUIRED[n] \notin dbColumns}
        n0 == CHOOSE n \in bad : \A m \in bad : n <= m
    IN  IF bad = {} THEN <<>> ELSE [column |-> REQUIRED[n0], file |-> DB_FILE]

\* The first missing column in the order the loop tests them: per column, the DB
\* file first.
missing_column ==
    LET bad == {n \in 1..Len(REQUIRED) :
                    REQUIRED[n] \notin dbColumns \/ REQUIRED[n] \notin cdiscColumns}
        n0 == CHOOSE n \in bad : \A m \in bad : n <= m
    IN  IF bad = {} THEN <<>>
        ELSE [column |-> REQUIRED[n0],
              file |-> IF REQUIRED[n0] \notin dbColumns THEN DB_FILE ELSE CDISC_FILE]

Validate ==
    /\ pc = "validate"
    /\ IF missing_column # <<>>
       THEN /\ pc' = "SystemExit"
            /\ exitMsg' = missing_column
       ELSE /\ pc' = "normalize_db"
            /\ UNCHANGED exitMsg
    /\ UNCHANGED <<dbColumns, cdiscColumns, db, cdisc, db_counts, db_key_set, missing_map,
                   cdisc_ok, cdisc_counts, cdisc_key_set, i, db_to_cdisc_rows,
                   db_to_cdisc_df, cdisc_to_db_rows, cdisc_to_db_df, files, summary, log>>
    /\ UNCHANGED normVars

NormalizeDB ==
    /\ pc = "normalize_db"
    /\ db' = [k \in 1..Len(db) |->
                [USUBJID_N |-> norm_id(db[k].USUBJID),
                 VISIT_N |-> norm(db[k].VISIT),
                 QSCAT_FULL_N |-> norm(db[k].QSCAT)] @@ db[k]]
    /\ db_counts' = groupby_size(keys_of(db'))
    /\ db_key_set' = DOMAIN db_counts'
    /\ pc' = "normalize_cdisc"
    /\ UNCHANGED <<dbColumns, cdiscColumns, cdisc, missing_map,
                   cdisc_ok, cdisc_counts, cdisc_key_set, i, db_to_cdisc_rows,
                   db_to_cdisc_df, cdisc_to_db_rows, cdisc_to_db_df, files, summary, log,
                   exitMsg>>
    /\ UNCHANGED normVars

NormalizeCDISC ==
    /\ pc = "normalize_cdisc"
    /\ cdisc' = [k \in 1..Len(cdisc) |->
                   [USUBJID_N |-> norm_id(cdisc[k].USUBJID),
                    VISIT_N |-> norm(cdisc[k].VISIT),
                    QSCAT_SHORT_N |-> norm(cdisc[k].QSCAT),
                    QSCAT_FULL_N |-> EMPTY] @@ cdisc[k]]
    /\ missing_map' = {}
    /\ i' = 1
    /\ pc' = "map"
    /\ UNCHANGED <<dbColumns, cdiscColumns, db, db_counts, db_key_set,
                   cdisc_ok, cdisc_counts, cdisc_key_set, db_to_cdisc_rows,
                   db_to_cdisc_df, cdisc_to_db_rows, cdisc_to_db_df, files, summary, log,
                   exitMsg>>
    /\ UNCHANGED normVars

\* One turn of the mapping loop; i is the row's position, from 1.
MapRow ==
    /\ pc = "map"
    /\ i <= Len(cdisc)
    /\ LET short == cdisc[i].QSCAT_SHORT_N
           full == get(short)
       IN  /\ missing_map' = IF full = EMPTY THEN missing_map \cup {short} ELSE missing_map
           /\ cdisc' = [cdisc EXCEPT ![i].QSCAT_FULL_N = full]
    /\ i' = i + 1
    /\ UNCHANGED <<pc, dbColumns, cdiscColumns, db, db_counts, db_key_set,
                   cdisc_ok, cdisc_counts, cdisc_key_set, db_to_cdisc_rows,
                   db_to_cdisc_df, cdisc_to_db_rows, cdisc_to_db_df, files, summary, log,
                   exitMsg>>
    /\ UNCHANGED normVars

IndexCDISC ==
    /\ pc = "map"
    /\ i > Len(cdisc)
    /\ log' = IF missing_map # {}
              THEN Append(log, [level |-> "WARNING", message |-> "Missing CDISC mappings for",
                                codes |-> sorted(missing_map)])
              ELSE log
    /\ cdisc_ok' = mappable(cdisc)
    /\ cdisc_counts' = groupby_size(keys_of(cdisc_ok'))
    /\ cdisc_key_set' = DOMAIN cdisc_counts'
    /\ i' = 1
    /\ pc' = "pass1"
    /\ UNCHANGED <<dbColumns, cdiscColumns, db, cdisc, db_counts, db_key_set, missing_map,
                   db_to_cdisc_rows, db_to_cdisc_df, cdisc_to_db_rows, cdisc_to_db_df,
                   files, summary, exitMsg>>
    /\ UNCHANGED normVars

recon_db_row_one(r, key_set, counts) ==
    LET key == key_of(r)
    IN  IF key \in key_set
        THEN [RECON_STATUS |-> "AVAILABLE_IN_CDISC",
              CDISC_ROW_COUNT_FOR_KEY |-> 1,
              COMMENT |-> "FOUND_IN_CDISC"] @@ r
        ELSE [RECON_STATUS |-> "MISSING_IN_CDISC",
              CDISC_ROW_COUNT_FOR_KEY |-> 0,
              COMMENT |-> "NO_MATCHING_CDISC_RECORD_KEY"] @@ r

recon_db_row(r, key_set, counts) ==
    LET key == key_of(r)
    IN  IF key \in key_set
        THEN [RECON_STATUS |-> "AVAILABLE_IN_CDISC",
              CDISC_ROW_COUNT_FOR_KEY |-> IF key \in DOMAIN counts THEN counts[key] ELSE 0,
              COMMENT |-> "FOUND_IN_CDISC"] @@ r
        ELSE [RECON_STATUS |-> "MISSING_IN_CDISC",
              CDISC_ROW_COUNT_FOR_KEY |-> 0,
              COMMENT |-> "NO_MATCHING_CDISC_RECORD_KEY"] @@ r

Pass1Row_dedup ==
    /\ pc = "pass1"
    /\ i <= Len(db)
    /\ db_to_cdisc_rows' =
           IF \E n \in 1..Len(db_to_cdisc_rows) : key_of(db_to_cdisc_rows[n]) = key_of(db[i])
           THEN db_to_cdisc_rows
           ELSE Append(db_to_cdisc_rows, recon_db_row(db[i], cdisc_key_set, cdisc_counts))
    /\ i' = i + 1
    /\ UNCHANGED <<pc, dbColumns, cdiscColumns, db, cdisc, db_counts, db_key_set, missing_map,
                   cdisc_ok, cdisc_counts, cdisc_key_set,
                   db_to_cdisc_df, cdisc_to_db_rows, cdisc_to_db_df, files, summary, log,
                   exitMsg>>
    /\ UNCHANGED normVars

Pass1Row ==
    /\ pc = "pass1"
    /\ i <= Len(db)
    /\ db_to_cdisc_rows' = Append(db_to_cdisc_rows, recon_db_row(db[i], cdisc_key_set, cdisc_counts))
    /\ i' = i + 1
    /\ UNCHANGED <<pc, dbColumns, cdiscColumns, db, cdisc, db_counts, db_key_set, missing_map,
                   cdisc_ok, cdisc_counts, cdisc_key_set,
                   db_to_cdisc_df, cdisc_to_db_rows, cdisc_to_db_df, files, summary, log,
                   exitMsg>>
    /\ UNCHANGED normVars

WriteDbToCdisc ==
    /\ pc = "pass1"
    /\ i > Len(db)
    /\ db_to_cdisc_df' = drop(DataFrame(db_to_cdisc_rows), HELPER_COLUMNS)
    /\ files' = (OUT_DB_TO_CDISC :> db_to_cdisc_df') @@ files
    /\ i' = 1
    /\ pc' = "pass2"
    /\ UNCHANGED <<dbColumns, cdiscColumns, db, cdisc, db_counts, db_key_set, missing_map,
                   cdisc_ok, cdisc_counts, cdisc_key_set, db_to_cdisc_rows,
                   cdisc_to_db_rows, cdisc_to_db_df, summary, log, exitMsg>>
    /\ UNCHANGED normVars

recon_cdisc_key_swapped(key, cdisc_row_count, key_set, counts) ==
    IF key \in key_set
    THEN [USUBJID |-> key[1], VISIT |-> key[2], QSCAT_FULL |-> key[3],
          RECON_STATUS |-> "AVAILABLE_IN_DB",
          CDISC_ROW_COUNT_FOR_KEY |-> cdisc_row_count,
          DB_ROW_COUNT_FOR_KEY |-> cdisc_row_count,
          COMMENT |-> "FOUND_IN_DB"]
    ELSE [USUBJID |-> key[1], VISIT |-> key[2], QSCAT_FULL |-> key[3],
          RECON_STATUS |-> "MISSING_IN_DB",
          CDISC_ROW_COUNT_FOR_KEY |-> cdisc_row_count,
          DB_ROW_COUNT_FOR_KEY |-> 0,
          COMMENT |-> "NO_MATCHING_DB_RECORD_KEY"]

recon_cdisc_key(key, cdisc_row_count, key_set, counts) ==
    IF key \in key_set
    THEN [USUBJID |-> key[1], VISIT |-> key[2], QSCAT_FULL |-> key[3],
          RECON_STATUS |-> "AVAILABLE_IN_DB",
          CDISC_ROW_COUNT_FOR_KEY |-> cdisc_row_count,
          DB_ROW_COUNT_FOR_KEY |-> IF key \in DOMAIN counts THEN counts[key] ELSE 0,
          COMMENT |-> "FOUND_IN_DB"]
    ELSE [USUBJID |-> key[1], VISIT |-> key[2], QSCAT_FULL |-> key[3],
          RECON_STATUS |-> "MISSING_IN_DB",
          CDISC_ROW_COUNT_FOR_KEY |-> cdisc_row_count,
          DB_ROW_COUNT_FOR_KEY |-> 0,
          COMMENT |-> "NO_MATCHING_DB_RECORD_KEY"]

Pass2Key ==
    /\ pc = "pass2"
    /\ i <= Len(items(cdisc_counts))
    /\ LET key == items(cdisc_counts)[i]
       IN  cdisc_to_db_rows' =
               Append(cdisc_to_db_rows, recon_cdisc_key(key, cdisc_counts[key], db_key_set, db_counts))
    /\ i' = i + 1
    /\ UNCHANGED <<pc, dbColumns, cdiscColumns, db, cdisc, db_counts, db_key_set, missing_map,
                   cdisc_ok, cdisc_counts, cdisc_key_set, db_to_cdisc_rows,
                   db_to_cdisc_df, cdisc_to_db_df, files, summary, log, exitMsg>>
    /\ UNCHANGED normVars

WriteCdiscToDb ==
    /\ pc = "pass2"
    /\ i > Len(items(cdisc_counts))
    /\ cdisc_to_db_df' = DataFrame(cdisc_to_db_rows)
    /\ files' = (OUT_CDISC_TO_DB :> cdisc_to_db_df') @@ files
    /\ pc' = "summary"
    /\ UNCHANGED <<dbColumns, cdiscColumns, db, cdisc, db_counts, db_key_set, missing_map,
                   cdisc_ok, cdisc_counts, cdisc_key_set, i, db_to_cdisc_rows,
                   db_to_cdisc_df, cdisc_to_db_rows, summary, log, exitMsg>>
    /\ UNCHANGED normVars

\* Selecting the column RECON_STATUS of a frame that has no such column raises
\* KeyError; nothing after it runs.
Summary ==
    /\ pc = "summary"
    /\ IF "RECON_STATUS" \notin db_to_cdisc_df.columns \/ "RECON_STATUS" \notin cdisc_to_db_df.columns
       THEN /\ pc' = "KeyError"
            /\ UNCHANGED <<summary, log>>
       ELSE /\ summary' = [total_db |-> Len(db_to_cdisc_df.rows),
                           missing_in_cdisc |-> count_status(db_to_cdisc_df, "MISSING_IN_CDISC"),
                           total_cdisc_keys |-> Len(cdisc_to_db_df.rows),
                           missing_in_db |-> count_status(cdisc_to_db_df, "MISSING_IN_DB")]
            /\ log' = Append(log, [level |-> "INFO", message |-> "Completed", codes |-> <<>>])
            /\ pc' = "done"
    /\ UNCHANGED <<dbColumns, cdiscColumns, db, cdisc, db_counts, db_key_set, missing_map,
                   cdisc_ok, cdisc_counts, cdisc_key_set, i, db_to_cdisc_rows,
                   db_to_cdisc_df, cdisc_to_db_rows, cdisc_to_db_df, files, exitMsg>>
    /\ UNCHANGED normVars

Next ==
    \/ Validate
    \/ NormalizeDB
    \/ NormalizeCDISC
    \/ MapRow
    \/ IndexCDISC
    \/ Pass1Row
    \/ WriteDbToCdisc
    \/ Pass2Key
    \/ WriteCdiscToDb
    \/ Summary

Spec == Init /\ [][Next]_vars

\* ---------------------------------------------------------------- properties
SchemaOK == dbColumns = Required /\ cdiscColumns = Required

Started == pc \notin {"idle", "validate", "SystemExit"}

Terminated == pc \in {"SystemExit", "KeyError", "done"}

AfterIndex == pc \in {"pass1", "pass2", "summary", "KeyError", "done"}

\* What the claims call the key of a record, from its raw cells.
PrimaryKey(r) == <<norm_id(r.USUBJID), norm(r.VISIT), norm(r.QSCAT)>>

Mapped(r) == norm(r.QSCAT) \in DOMAIN CDISC_QSCAT_TO_FULL

SecondaryKey(r) == <<norm_id(r.USUBJID), norm(r.VISIT), CDISC_QSCAT_TO_FULL[norm(r.QSCAT)]>>

PrimaryCount(k) == Cardinality({n \in 1..Len(db) : PrimaryKey(db[n]) = k})

SecondaryCount(k) ==
    Cardinality({n \in 1..Len(cdisc) : Mapped(cdisc[n]) /\ SecondaryKey(cdisc[n]) = k})

SecondaryKeys == {SecondaryKey(cdisc[n]) : n \in {m \in 1..Len(cdisc) : Mapped(cdisc[m])}}

RowKey(row) == <<row.USUBJID, row.VISIT, row.QSCAT_FULL>>

Written(f) == f \in DOMAIN files

RECURSIVE SumCounts(_)
SumCounts(f) ==
    IF DOMAIN f = {} THEN 0
    ELSE LET k == CHOOSE k \in DOMAIN f : TRUE
         IN  f[k] + SumCounts(Restrict(f, DOMAIN f \ {k}))

Perms(n) == {p \in [1..n -> 1..n] : \A a, b \in 1..n : p[a] = p[b] => a = b}

Permuted(s, p) == [k \in 1..Len(s) |-> s[p[k]]]

Pass1RowOK(row, secondary_count) ==
    IF secondary_count > 0
    THEN row.RECON_STATUS = "AVAILABLE_IN_CDISC" /\ row.CDISC_ROW_COUNT_FOR_KEY = secondary_count
    ELSE row.RECON_STATUS = "MISSING_IN_CDISC" /\ row.CDISC_ROW_COUNT_FOR_KEY = 0

\* C1: every Pass-1 row, in the list being built and in the table written, is
\* AVAILABLE_IN_CDISC with the number of mapped secondary records of its key when
\* there is one, and MISSING_IN_CDISC with count 0 otherwise; rows of one key agree.
C1_Pass1StatusAndCount ==
    Started =>
        LET ks == [n \in 1..Len(db) |-> PrimaryKey(db[n])]
            cs == [n \in 1..Len(db) |-> SecondaryCount(ks[n])]
        IN  /\ \A n \in 1..Len(db_to_cdisc_rows) : Pass1RowOK(db_to_cdisc_rows[n], cs[n])
            /\ Written(OUT_DB_TO_CDISC) =>
                   LET out == files[OUT_DB_TO_CDISC].rows
                   IN  /\ \A n \in 1..Len(out) : Pass1RowOK(out[n], cs[n])
                       /\ \A m, n \in 1..Len(out) :
                              ks[m] = ks[n] =>
                                  /\ out[m].RECON_STATUS = out[n].RECON_STATUS
                                  /\ out[m].CDISC_ROW_COUNT_FOR_KEY = out[n].CDISC_ROW_COUNT_FOR_KEY

C1_Witness ==
    /\ pc = "done"
    /\ \E m, n \in 1..Len(files[OUT_DB_TO_CDISC].rows) :
          /\ files[OUT_DB_TO_CDISC].rows[m].RECON_STATUS = "AVAILABLE_IN_CDISC"
          /\ files[OUT_DB_TO_CDISC].rows[m].CDISC_ROW_COUNT_FOR_KEY = 2
          /\ files[OUT_DB_TO_CDISC].rows[n].RECON_STATUS = "MISSING_IN_CDISC"
          /\ files[OUT_DB_TO_CDISC].rows[n].CDISC_ROW_COUNT_FOR_KEY = 0

\* C2: Pass 1 keeps one row per primary record, in input order: the n-th row
\* built, and the n-th row of the table written, carries the n-th record's cells,
\* and the table written has as many rows as the primary table.
C2_Pass1RowPreserving ==
    Started =>
        /\ Len(db_to_cdisc_rows) <= Len(db)
        /\ pc = "pass1" => Len(db_to_cdisc_rows) = i - 1
        /\ \A n \in 1..Len(db_to_cdisc_rows) :
               Restrict(db_to_cdisc_rows[n], Required) = Restrict(db[n], Required)
        /\ Written(OUT_DB_TO_CDISC) =>
               /\ Len(files[OUT_DB_TO_CDISC].rows) = Len(db)
               /\ \A n \in 1..Len(db) :
                      Restrict(files[OUT_DB_TO_CDISC].rows[n], Required) = Restrict(db[n], Required)

C2_Witness ==
    /\ Written(OUT_DB_TO_CDISC)
    /\ Len(db) = 2
    /\ PrimaryKey(db[1]) = PrimaryKey(db[2])
    /\ Restrict(db[1], Required) # Restrict(db[2], Required)
    /\ Len(files[OUT_DB_TO_CDISC].rows) = 2

\* C3: Pass 2 emits one row per distinct key of the mapped secondary records and
\* no other row: the rows built so far have pairwise different keys, all of them
\* keys of mapped records, and the table written has exactly those keys.
C3_Pass2OneRowPerKey ==
    Started =>
        /\ \A m, n \in 1..Len(cdisc_to_db_rows) :
               RowKey(cdisc_to_db_rows[m]) = RowKey(cdisc_to_db_rows[n]) => m = n
        /\ \A n \in 1..Len(cdisc_to_db_rows) : RowKey(cdisc_to_db_rows[n]) \in SecondaryKeys
        /\ Written(OUT_CDISC_TO_DB) =>
               LET out == files[OUT_CDISC_TO_DB].rows
               IN  /\ {RowKey(out[n]) : n \in 1..Len(out)} = SecondaryKeys
                   /\ Len(out) = Cardinality(SecondaryKeys)

C3_Witness ==
    /\ Written(OUT_CDISC_TO_DB)
    /\ Len(cdisc) = 2
    /\ Mapped(cdisc[1]) /\ Mapped(cdisc[2])
    /\ SecondaryKey(cdisc[1]) = SecondaryKey(cdisc[2])
    /\ Len(files[OUT_CDISC_TO_DB].rows) = 1

Pass2RowOK(row) ==
    LET k == RowKey(row)
        primary_count == PrimaryCount(k)
    IN  /\ row.CDISC_ROW_COUNT_FOR_KEY = SecondaryCount(k)
        /\ IF primary_count > 0
           THEN row.RECON_STATUS = "AVAILABLE_IN_DB" /\ row.DB_ROW_COUNT_FOR_KEY = primary_count
           ELSE row.RECON_STATUS = "MISSING_IN_DB" /\ row.DB_ROW_COUNT_FOR_KEY = 0

\* C4: every Pass-2 row carries the number of mapped secondary records of its key
\* and, when primary records have that key (after normalisation of both sides),
\* AVAILABLE_IN_DB with their number, otherwise MISSING_IN_DB with 0.
C4_Pass2StatusAndCounts ==
    Started =>
        /\ \A n \in 1..Len(cdisc_to_db_rows) : Pass2RowOK(cdisc_to_db_rows[n])
        /\ Written(OUT_CDISC_TO_DB) =>
               \A n \in 1..Len(files[OUT_CDISC_TO_DB].rows) :
                   Pass2RowOK(files[OUT_CDISC_TO_DB].rows[n])

C4_Witness ==
    /\ pc = "done"
    /\ Len(db) = 2 /\ Len(cdisc) = 1
    /\ db[1].USUBJID = <<"S", "U", "B", "J", "-", "0", "0", "1">> /\ db[2].USUBJID = <<"S", "U",
        "B", "J", "-", "0", "0", "1">>
    /\ cdisc[1].USUBJID = <<"S", "U", "B", "J", "-", "0", "0", "1", ".", "0">>
    /\ Len(files[OUT_CDISC_TO_DB].rows) = 1
    /\ files[OUT_CDISC_TO_DB].rows[1].RECON_STATUS = "AVAILABLE_IN_DB"
    /\ files[OUT_CDISC_TO_DB].rows[1].CDISC_ROW_COUNT_FOR_KEY = 1
    /\ files[OUT_CDISC_TO_DB].rows[1].DB_ROW_COUNT_FOR_KEY = 2

UnmappedRows == {n \in 1..Len(cdisc) : ~Mapped(cdisc[n])}

\* The effects of an unmapped code that C5 lists, short of the run going on.
UnmappedExcluded ==
    AfterIndex =>
        /\ \A n \in 1..Len(cdisc_ok) : Mapped(cdisc_ok[n])
        /\ Len(cdisc_ok) = Len(cdisc) - Cardinality(UnmappedRows)
        /\ \A n \in UnmappedRows : norm(cdisc[n].QSCAT) \in missing_map
        /\ \A c \in missing_map : \E n \in UnmappedRows : norm(cdisc[n].QSCAT) = c
        /\ \A k \in DOMAIN cdisc_counts : k \in SecondaryKeys /\ cdisc_counts[k] = SecondaryCount(k)
        /\ \A k \in SecondaryKeys : k \in DOMAIN cdisc_counts
        /\ \A n \in 1..Len(cdisc_to_db_rows) : RowKey(cdisc_to_db_rows[n]) \in SecondaryKeys
        /\ \A n \in 1..Len(db_to_cdisc_rows) :
               db_to_cdisc_rows[n].RECON_STATUS = "AVAILABLE_IN_CDISC" =>
                   PrimaryKey(db[n]) \in SecondaryKeys

\* C5: a secondary record with an unmapped code is left out of the index, its code
\* is in the set of unmapped codes, it gets no Pass-2 row and makes no primary
\* record available, mapped records are unaffected, and the run goes on to its
\* end (over a primary table with rows; the empty one is C7's case).
C5_UnmappedNonFatal ==
    /\ UnmappedExcluded
    /\ (SchemaOK /\ Len(db) > 0 /\ UnmappedRows # {}) => pc # "KeyError"

\* C6: with a required column missing from either table the run stops at the
\* validation: nothing is normalised, indexed or reconciled, and no file is written.
C6_SchemaFailFast ==
    (pc # "idle" /\ ~SchemaOK) =>
        /\ pc \in {"validate", "SystemExit"}
        /\ pc = "SystemExit" => exitMsg.column \notin (dbColumns \cap cdiscColumns)
        /\ DOMAIN files = {}
        /\ \A n \in 1..Len(db) : DOMAIN db[n] = dbColumns
        /\ \A n \in 1..Len(cdisc) : DOMAIN cdisc[n] = cdiscColumns
        /\ DOMAIN db_counts = {} /\ DOMAIN cdisc_counts = {}
        /\ db_key_set = {} /\ cdisc_key_set = {} /\ missing_map = {}
        /\ Len(db_to_cdisc_rows) = 0 /\ Len(cdisc_to_db_rows) = 0
        /\ Len(log) = 0

C6_Witness ==
    /\ pc = "SystemExit"
    /\ dbColumns = Required
    /\ cdiscColumns = Required \ {"VISIT"}
    /\ Len(db) > 0 /\ Len(cdisc) > 0
    /\ exitMsg.column = "VISIT" /\ exitMsg.file = CDISC_FILE

\* C7: with the required columns in both tables, a run that has ended has written
\* both tables, computed the four counts and logged its completion.
C7_AlwaysCompletes ==
    (SchemaOK /\ Terminated) =>
        /\ pc = "done"
        /\ Written(OUT_DB_TO_CDISC) /\ Written(OUT_CDISC_TO_DB)
        /\ DOMAIN summary = {"total_db", "missing_in_cdisc", "total_cdisc_keys", "missing_in_db"}
        /\ Len(log) > 0 /\ log[Len(log)].message = "Completed"

\* C10: the counts of each index add up to the number of records that contribute
\* (every primary record; the mapped secondary records), and the index is the same
\* whatever the order of the records.
C10_IndexCounts ==
    /\ (Started /\ pc # "normalize_db") =>
          /\ SumCounts(db_counts) = Len(db)
          /\ \A p \in Perms(Len(db)) : groupby_size(Permuted(keys_of(db), p)) = db_counts
    /\ AfterIndex =>
          /\ SumCounts(cdisc_counts) = Len(cdisc) - Cardinality(UnmappedRows)
          /\ \A p \in Perms(Len(cdisc_ok)) :
                 groupby_size(Permuted(keys_of(cdisc_ok), p)) = cdisc_counts

C10_Witness ==
    /\ pc = "done"
    /\ Len(db) = 2
    /\ db[1].QSCAT = EMPTY
    /\ PrimaryKey(db[1]) = PrimaryKey(db[2])
    /\ db_counts[PrimaryKey(db[1])] = 2
    /\ UnmappedRows # {}
    /\ Cardinality(UnmappedRows) < Len(cdisc)

\* ---------------------------------------------------------------- SpecNorm
NormAlphabet == {" ", "\t", ".", "0", "1"}

Examples == {<<"1", "2", "3", ".", "0">>, <<"1", "2", "3", ".", "0", "0">>, <<"1", "2", "3", ".",
        "0", ".", "0">>, <<"A", "B", "C">>, <<" ", " ", "A", " ", "\t", " ", "B", " ", " ">>}

NormInputs == BSeq(NormAlphabet, MaxLen) \cup Examples \cup {None}

mainIdle ==
    /\ pc = "idle" /\ dbColumns = {} /\ cdiscColumns = {} /\ db = <<>> /\ cdisc = <<>>
    /\ db_counts = <<>> /\ db_key_set = {} /\ missing_map = {} /\ cdisc_ok = <<>>
    /\ cdisc_counts = <<>> /\ cdisc_key_set = {} /\ i = 0
    /\ db_to_cdisc_rows = <<>> /\ db_to_cdisc_df = <<>>
    /\ cdisc_to_db_rows = <<>> /\ cdisc_to_db_df = <<>>
    /\ files = <<>> /\ summary = <<>> /\ log = <<>> /\ exitMsg = <<>>

InitNorm ==
    /\ mainIdle
    /\ npc = "input" /\ nx \in NormInputs /\ n1 = <<>> /\ n2 = <<>> /\ nid = <<>>

ApplyNorm ==
    /\ npc = "input"
    /\ n1' = norm(nx)
    /\ npc' = "norm"
    /\ UNCHANGED <<mainVars, nx, n2, nid>>

ApplyNormAgain ==
    /\ npc = "norm"
    /\ n2' = norm(n1)
    /\ npc' = "norm_norm"
    /\ UNCHANGED <<mainVars, nx, n1, nid>>

ApplyNormId ==
    /\ npc = "norm_norm"
    /\ nid' = norm_id(nx)
    /\ npc' = "norm_id"
    /\ UNCHANGED <<mainVars, nx, n1, n2>>

NextNorm == ApplyNorm \/ ApplyNormAgain \/ ApplyNormId

SpecNorm == InitNorm /\ [][NextNorm]_vars

HasWS(s) == \E n \in 1..Len(s) : s[n] \in WS

\* C8 as stated: norm_id is norm with one trailing ".0" removed, once; "123.0"
\* gives "123", "123.00" gives "123.0", "ABC" gives "ABC".
C8_AsStated ==
    npc = "norm_id" =>
        /\ IF endswith(n1, <<".", "0">>) THEN nid \o <<".", "0">> = n1 ELSE nid = n1
        /\ nx = <<"1", "2", "3", ".", "0">> => nid = <<"1", "2", "3">>
        /\ nx = <<"1", "2", "3", ".", "0", "0">> => nid = <<"1", "2", "3", ".", "0">>
        /\ nx = <<"A", "B", "C">> => nid = <<"A", "B", "C">>

\* C8, amended: norm_id is norm with one trailing ".0" removed, once: the result is
\* norm's when that does not end in ".0", and otherwise the result followed by ".0"
\* is norm's; "123.0" gives "123", "123.0.0" gives "123.0", "ABC" gives "ABC", and
\* "123.00", which ends in "00", is left as it is.
C8_NormIdStripsOnce ==
    npc = "norm_id" =>
        /\ IF endswith(n1, <<".", "0">>) THEN nid \o <<".", "0">> = n1 ELSE nid = n1
        /\ nx = <<"1", "2", "3", ".", "0">> => nid = <<"1", "2", "3">>
        /\ nx = <<"1", "2", "3", ".", "0", ".", "0">> => nid = <<"1", "2", "3", ".", "0">>
        /\ nx = <<"1", "2", "3", ".", "0", "0">> => nid = <<"1", "2", "3", ".", "0", "0">>
        /\ nx = <<"A", "B", "C">> => nid = <<"A", "B", "C">>

C8_Witness == npc = "norm_id" /\ nx = <<"1", "2", "3", ".", "0", ".", "0">> /\ nid = <<"1", "2",
        "3", ".", "0">>

\* C9: norm has a result for every input, the empty string for None; applying it
\* again changes nothing; the result neither starts nor ends with whitespace and
\* holds no two whitespace characters in a row.
C9_NormIdempotent ==
    npc \in {"norm_norm", "norm_id"} =>
        /\ n2 = n1
        /\ nx = None => n1 = EMPTY
        /\ n1 # <<>> => (n1[1] \notin WS /\ n1[Len(n1)] \notin WS)
        /\ \A n \in 1..(Len(n1) - 1) : ~(n1[n] \in WS /\ n1[n + 1] \in WS)

C9_Witness ==
    /\ npc = "norm_norm"
    /\ nx = <<" ", " ", "A", " ", "\t", " ", "B", " ", " ">>
    /\ n1 = <<"A", " ", "B">>
    /\ n2 = n1

====
